---- MODULE Spec2Model ----
(***************************************************************************)
(* Model of packages/remix-server-runtime/cookies.ts: the cookie           *)
(* descriptor returned by createCookieFactory()(name, options) and the     *)
(* two codec functions encodeCookieValue / decodeCookieValue it is built   *)
(* on.  The codec delegates to the jose library (SignJWT, EncryptJWT,      *)
(* UnsecuredJWT, jwtVerify, jwtDecrypt); the operators named after those   *)
(* calls model what jose v4 does with the arguments cookies.ts passes.     *)
(*                                                                         *)
(* JavaScript values are records tagged by "type".  A compact token is a   *)
(* JavaScript string; it is modelled by its structure (form, alg, the key  *)
(* that produced its MAC / AEAD tag, and the claims it carries) instead of *)
(* its bytes.  A call that throws is a result with ok = FALSE.             *)
(***************************************************************************)
EXTENDS Integers, Sequences, FiniteSets, TLC

VARIABLES
    secrets,    \* options.secrets captured by the descriptor (default [])
    encrypt,    \* options.encrypt captured by the descriptor (default false)
    maxAge,     \* options.maxAge in seconds, or Undefined
    expires,    \* options.expires (a Date, in ms since the epoch), or Undefined
    now,        \* Date.now(), in milliseconds
    issued,     \* the latest encodeCookieValue call and what it returned
    last,       \* the latest call: its operation, argument, result, library calls
    reads       \* the latest reads of the `expires` getter, newest last

vars == <<secrets, encrypt, maxAge, expires, now, issued, last, reads>>

----------------------------------------------------------------------------
(* Bounds of the model *)

MaxSecrets == 2  \* longest secret list
MaxTicks == 3    \* how many times the clock advances
MaxReads == 2    \* how many reads of `expires` are remembered

SecretPool == {"s1", "s2"}
TickSteps == {500, 1000}    \* milliseconds the clock may advance by at once

----------------------------------------------------------------------------
(* JavaScript values *)

Undefined == -1     \* `undefined` for a numeric option or claim
NoKey == "-"        \* a library call that takes no key

Str(s) == [type |-> "string", s |-> s]
EmptyString == Str("")
Null == [type |-> "null"]
Obj(uid, iat) == [type |-> "object", uid |-> uid, iat |-> iat]
Token(form, alg, key, payload) ==
    [type |-> "string", form |-> form, alg |-> alg, key |-> key, payload |-> payload]

Ok(v) == [ok |-> TRUE, val |-> v]
Throw(name) == [ok |-> FALSE, val |-> [type |-> "error", name |-> name]]

isObject(v) == v.type = "object"
isToken(v) == v.type = "string" /\ "form" \in DOMAIN v

----------------------------------------------------------------------------
(* The jose calls made by the codec *)

HSAlgs == {"HS256", "HS384", "HS512"}     \* the JWS algorithms a byte-string key can sign with
PBES2Algs == {"PBES2-HS256+A128KW", "PBES2-HS384+A192KW", "PBES2-HS512+A256KW"}

\* jose epoch(date): Math.floor(date.getTime() / 1000)
epoch(ms) == ms \div 1000

\* ProduceJWT.setIssuedAt(): the claims set gets iat = epoch(now), replacing any iat
setIssuedAt(payload, t) == [payload EXCEPT !.iat = epoch(t)]

\* new jose.SignJWT(value).setProtectedHeader({alg, enc}).setIssuedAt().sign(key):
\* the constructor rejects a value that is no object; sign() accepts a byte-string
\* key for the HS* algorithms only and throws for any other alg
SignJWT(value, alg, t, key) ==
    IF ~isObject(value) THEN Throw("TypeError")
    ELSE IF alg \notin HSAlgs THEN Throw("TypeError")
    ELSE Ok(Token("JWS", alg, key, setIssuedAt(value, t)))

\* new jose.EncryptJWT(value).setProtectedHeader({alg, enc}).setIssuedAt().encrypt(key):
\* password-based key wrapping with the byte-string key
EncryptJWT(value, alg, t, key) ==
    IF ~isObject(value) THEN Throw("TypeError")
    ELSE IF alg \notin PBES2Algs THEN Throw("JOSENotSupported")
    ELSE Ok(Token("JWE", alg, key, setIssuedAt(value, t)))

\* new jose.UnsecuredJWT(value).setIssuedAt().encode(): header {alg: "none"},
\* the claims, and an empty signature segment
UnsecuredJWT_encode(value, t) ==
    IF ~isObject(value) THEN Throw("TypeError")
    ELSE Ok(Token("unsecured", "none", NoKey, setIssuedAt(value, t)))

\* jose.UnsecuredJWT.decode(jwt): three segments, the third empty, header alg
\* "none"; returns the object {payload, header}, throws JWTInvalid otherwise
UnsecuredJWT_decode(jwt) ==
    IF isToken(jwt) /\ jwt.form = "unsecured" /\ jwt.alg = "none"
    THEN Ok([type |-> "object", payload |-> jwt.payload, header |-> [alg |-> "none"]])
    ELSE Throw("JWTInvalid")

\* jose.jwtVerify(jwt, key): a compact JWS whose MAC verifies under key;
\* returns {payload, protectedHeader}
jwtVerify(jwt, key) ==
    IF isToken(jwt) /\ jwt.form = "JWS" /\ jwt.alg \in HSAlgs /\ jwt.key = key
    THEN Ok([type |-> "object", payload |-> jwt.payload,
             protectedHeader |-> [alg |-> jwt.alg]])
    ELSE Throw("JWSInvalid")

\* jose.jwtDecrypt(jwt, key): a compact JWE whose content key unwraps under key
\* and whose tag verifies; returns {payload, protectedHeader}
jwtDecrypt(jwt, key) ==
    IF isToken(jwt) /\ jwt.form = "JWE" /\ jwt.alg \in PBES2Algs /\ jwt.key = key
    THEN Ok([type |-> "object", payload |-> jwt.payload,
             protectedHeader |-> [alg |-> jwt.alg]])
    ELSE Throw("JWEInvalid")

\* one library call as the codec made it: which function, with which key, and
\* whether it returned
Call(fn, key, ok) == [fn |-> fn, key |-> key, ok |-> ok]

----------------------------------------------------------------------------
(* The codec *)

\* the protected header the codec sets in both secured modes
ProtectedAlg == "PBES2-HS512+A256KW"

\* a variant that keys the token with the last secret of the list
encodeWithLastSecret(value, secretList, doEncrypt, t) ==
    IF Len(secretList) > 0
    THEN LET key == secretList[Len(secretList)]
             r == IF doEncrypt THEN EncryptJWT(value, ProtectedAlg, t, key)
                               ELSE SignJWT(value, ProtectedAlg, t, key)
         IN [result |-> r,
             calls |-> <<Call(IF doEncrypt THEN "EncryptJWT.encrypt" ELSE "SignJWT.sign",
                              key, r.ok)>>]
    ELSE LET r == UnsecuredJWT_encode(value, t)
         IN [result |-> r, calls |-> <<Call("UnsecuredJWT.encode", NoKey, r.ok)>>]

encodeCookieValue(value, secretList, doEncrypt, t) ==
    IF Len(secretList) > 0
    THEN IF doEncrypt
         THEN LET r == EncryptJWT(value, ProtectedAlg, t, secretList[1])
              IN [result |-> r,
                  calls |-> <<Call("EncryptJWT.encrypt", secretList[1], r.ok)>>]
         ELSE LET r == SignJWT(value, ProtectedAlg, t, secretList[1])
              IN [result |-> r,
                  calls |-> <<Call("SignJWT.sign", secretList[1], r.ok)>>]
    ELSE LET r == UnsecuredJWT_encode(value, t)
         IN [result |-> r, calls |-> <<Call("UnsecuredJWT.encode", NoKey, r.ok)>>]

\* the tail of decodeCookieValue: the unsecured decoder's result, as returned
decodeUnsecured(value, calls) ==
    LET r == UnsecuredJWT_decode(value)
    IN [result |-> r, calls |-> Append(calls, Call("UnsecuredJWT.decode", NoKey, r.ok))]

\* the loop of decodeCookieValue from the i-th secret on
RECURSIVE decodeLoop(_, _, _, _, _)
decodeLoop(value, secretList, decrypt, i, calls) ==
    IF i > Len(secretList) THEN decodeUnsecured(value, calls)
    ELSE LET r == IF decrypt THEN jwtDecrypt(value, secretList[i])
                             ELSE jwtVerify(value, secretList[i])
             c == Append(calls, Call(IF decrypt THEN "jwtDecrypt" ELSE "jwtVerify",
                                     secretList[i], r.ok))
         IN IF r.ok THEN [result |-> Ok(r.val.payload), calls |-> c]
                    ELSE decodeLoop(value, secretList, decrypt, i + 1, c)

\* a variant that fails closed: no unsecured decoding once secrets are configured
decodeFailClosed(value, secretList, decrypt) ==
    IF Len(secretList) > 0
    THEN LET d == decodeLoop(value, secretList, decrypt, 1, <<>>)
         IN IF Len(d.calls) > Len(secretList)
            THEN [result |-> Throw("JWTInvalid"), calls |-> SubSeq(d.calls, 1, Len(secretList))]
            ELSE d
    ELSE decodeUnsecured(value, <<>>)

\* a variant that attempts the secrets from the last to the first
Reverse(s) == [i \in 1..Len(s) |-> s[Len(s) + 1 - i]]
decodeOldestFirst(value, secretList, decrypt) ==
    IF Len(secretList) > 0
    THEN decodeLoop(value, Reverse(secretList), decrypt, 1, <<>>)
    ELSE decodeUnsecured(value, <<>>)

\* a variant with a short circuit for the empty string
decodeShortCircuit(value, secretList, decrypt) ==
    IF value = EmptyString THEN [result |-> Ok(EmptyString), calls |-> <<>>]
    ELSE IF Len(secretList) > 0
    THEN decodeLoop(value, secretList, decrypt, 1, <<>>)
    ELSE decodeUnsecured(value, <<>>)

decodeCookieValue(value, secretList, decrypt) ==
    IF Len(secretList) > 0
    THEN decodeLoop(value, secretList, decrypt, 1, <<>>)
    ELSE decodeUnsecured(value, <<>>)

----------------------------------------------------------------------------
(* The cookie descriptor *)

name == "session"           \* the descriptor's name
CookieNames == {name, "other"}

\* a Cookie header is a string; it is modelled by the name -> raw value
\* mapping that cookie.parse reads off it
Header(cookies) == [type |-> "string", cookies |-> cookies]
cookieParse(cookieHeader) == cookieHeader.cookies

\* cookie.serialize(name, value, options): the Set-Cookie header, with the
\* attributes the descriptor's options carry (path "/" and sameSite "lax" by default)
cookieSerialize(n, value) ==
    [type |-> "string", name |-> n, value |-> value, path |-> "/", sameSite |-> "lax",
     maxAge |-> maxAge, expires |-> expires]

\* one invocation of a codec function by the descriptor
Invoke(fn, arg) == [fn |-> fn, arg |-> arg]

\* a variant that tests maxAge for truthiness, so that maxAge = 0 counts as unset
expiresTruthyMaxAge(t) ==
    IF maxAge # Undefined /\ maxAge # 0 THEN t + maxAge * 1000 ELSE expires

\* get expires(), read when the clock shows t
expiresGetter(t) ==
    IF maxAge # Undefined THEN t + maxAge * 1000 ELSE expires

\* a variant that hands a missing cookie to the codec
parseDecodesAbsent(cookieHeader) ==
    IF cookieHeader = Null \/ cookieHeader = EmptyString
    THEN [result |-> Ok(Null), codec |-> <<>>, calls |-> <<>>]
    ELSE LET cookies == cookieParse(cookieHeader)
             raw == IF name \in DOMAIN cookies THEN cookies[name] ELSE Str("undefined")
         IN IF raw = EmptyString
            THEN [result |-> Ok(EmptyString), codec |-> <<>>, calls |-> <<>>]
            ELSE LET d == decodeCookieValue(raw, secrets, encrypt)
                 IN [result |-> d.result,
                     codec |-> <<Invoke("decodeCookieValue", raw)>>,
                     calls |-> d.calls]

\* parse(cookieHeader): `!cookieHeader` holds of null and of the empty string
parse(cookieHeader) ==
    IF cookieHeader = Null \/ cookieHeader = EmptyString
    THEN [result |-> Ok(Null), codec |-> <<>>, calls |-> <<>>]
    ELSE LET cookies == cookieParse(cookieHeader)
         IN IF name \in DOMAIN cookies
            THEN IF cookies[name] = EmptyString
                 THEN [result |-> Ok(EmptyString), codec |-> <<>>, calls |-> <<>>]
                 ELSE LET d == decodeCookieValue(cookies[name], secrets, encrypt)
                      IN [result |-> d.result,
                          codec |-> <<Invoke("decodeCookieValue", cookies[name])>>,
                          calls |-> d.calls]
            ELSE [result |-> Ok(Null), codec |-> <<>>, calls |-> <<>>]

\* a variant without the test for the empty string
serializeAlwaysEncodes(value, t) ==
    LET e == encodeCookieValue(value, secrets, encrypt, t)
    IN [result |-> IF e.result.ok THEN Ok(cookieSerialize(name, e.result.val))
                                  ELSE e.result,
        codec |-> <<Invoke("encodeCookieValue", value)>>,
        calls |-> e.calls]

\* serialize(value), called when the clock shows t
serialize(value, t) ==
    IF value = EmptyString
    THEN [result |-> Ok(cookieSerialize(name, EmptyString)), codec |-> <<>>, calls |-> <<>>]
    ELSE LET e == encodeCookieValue(value, secrets, encrypt, t)
         IN [result |-> IF e.result.ok THEN Ok(cookieSerialize(name, e.result.val))
                                       ELSE e.result,
             codec |-> <<Invoke("encodeCookieValue", value)>>,
             calls |-> e.calls]

----------------------------------------------------------------------------
(* Inputs *)

RECURSIVE SeqsUpTo(_, _)
SeqsUpTo(S, n) ==
    IF n = 0 THEN {<<>>}
    ELSE LET shorter == SeqsUpTo(S, n - 1)
         IN shorter \cup {Append(q, x) : q \in shorter, x \in S}

SecretLists == SeqsUpTo(SecretPool, MaxSecrets)
MaxAges == {Undefined, 0, 1}          \* seconds
ExpiresDates == {Undefined, 86400000} \* a static Date
ClockValues == {k * 500 : k \in 0..MaxTicks}

\* values handed to serialize / encode: claims objects (one already carrying
\* an iat claim), the empty string, and a string that is no object
Values == {Obj(42, Undefined), Obj(7, Undefined), Obj(42, 0), EmptyString, Str("hello")}

\* raw cookie values a client may send that this program did not issue
ForgedPayload == Obj(42, 0)
ForgedRaw ==
    {EmptyString, Str("junk"), Token("unsecured", "none", NoKey, ForgedPayload)}
    \cup {Token("JWS", "HS256", k, ForgedPayload) : k \in SecretPool}
    \cup {Token("JWE", ProtectedAlg, k, ForgedPayload) : k \in SecretPool}

NoIssue ==
    [some |-> FALSE, value |-> Null, secrets |-> <<>>, encrypt |-> FALSE,
     at |-> 0, result |-> Ok(Null), calls |-> <<>>]
NoCall ==
    [op |-> "none", arg |-> Null, secrets |-> <<>>, encrypt |-> FALSE,
     result |-> Ok(Null), codec |-> <<>>, calls |-> <<>>]

\* the raw values that can arrive: forged ones and the token issued last
RawValues == ForgedRaw \cup (IF issued.some /\ issued.result.ok THEN {issued.result.val} ELSE {})

Headers ==
    {Null, EmptyString, Header([other |-> Str("x")])}
    \cup {Header([session |-> raw]) : raw \in RawValues}
    \cup {Header([session |-> raw, other |-> Str("x")]) : raw \in {EmptyString}}

----------------------------------------------------------------------------
(* The descriptor as a state machine: one descriptor, constructed once *)

\* createCookie(name, cookieOptions): the options the closure captures
Init ==
    /\ secrets \in SecretLists
    /\ encrypt \in BOOLEAN
    /\ maxAge \in MaxAges
    /\ expires \in ExpiresDates
    /\ now = 0
    /\ issued = NoIssue
    /\ last = NoCall
    /\ reads = <<>>

Tick ==
    /\ \E d \in TickSteps :
          /\ now + d <= MaxTicks * 500
          /\ now' = now + d
    /\ UNCHANGED <<secrets, encrypt, maxAge, expires, issued, last, reads>>

Serialize ==
    /\ \E value \in Values :
          LET r == serialize(value, now)
          IN /\ last' = [op |-> "serialize", arg |-> value, secrets |-> secrets,
                         encrypt |-> encrypt, result |-> r.result,
                         codec |-> r.codec, calls |-> r.calls]
             /\ issued' = IF r.codec = <<>> THEN issued
                          ELSE [some |-> TRUE, value |-> value, secrets |-> secrets,
                                encrypt |-> encrypt, at |-> now,
                                result |-> IF r.result.ok THEN Ok(r.result.val.value)
                                                         ELSE r.result,
                                calls |-> r.calls]
    /\ UNCHANGED <<secrets, encrypt, maxAge, expires, now, reads>>

Parse ==
    /\ \E cookieHeader \in Headers :
          LET r == parse(cookieHeader)
          IN last' = [op |-> "parse", arg |-> cookieHeader, secrets |-> secrets,
                      encrypt |-> encrypt, result |-> r.result,
                      codec |-> r.codec, calls |-> r.calls]
    /\ UNCHANGED <<secrets, encrypt, maxAge, expires, now, issued, reads>>

Next == Tick \/ Serialize \/ Parse

Spec == Init /\ [][Next]_vars

----------------------------------------------------------------------------
(* Reads of the derived `expires` property as the clock advances *)

ReadExpires ==
    /\ LET r == Append(reads, [at |-> now, value |-> expiresGetter(now)])
       IN reads' = IF Len(r) > MaxReads THEN Tail(r) ELSE r
    /\ UNCHANGED <<secrets, encrypt, maxAge, expires, now, issued, last>>

ExpiryNext == Tick \/ ReadExpires

ExpirySpec == Init /\ [][ExpiryNext]_vars

----------------------------------------------------------------------------
(* The codec functions applied directly to drawn arguments.  The codec     *)
(* keeps no state between calls, so a run is one encode and one decode, in *)
(* either order; the decode may be handed the token the encode returned.   *)

CodecInit ==
    /\ secrets = <<>>
    /\ encrypt = FALSE
    /\ maxAge = Undefined
    /\ expires = Undefined
    /\ now \in ClockValues
    /\ issued = NoIssue
    /\ last = NoCall
    /\ reads = <<>>

Encode ==
    /\ ~issued.some
    /\ \E value \in Values, secretList \in SecretLists, doEncrypt \in BOOLEAN :
          LET e == encodeCookieValue(value, secretList, doEncrypt, now)
          IN /\ issued' = [some |-> TRUE, value |-> value, secrets |-> secretList,
                           encrypt |-> doEncrypt, at |-> now, result |-> e.result,
                           calls |-> e.calls]
             /\ last' = [op |-> "encode", arg |-> value, secrets |-> secretList,
                         encrypt |-> doEncrypt, result |-> e.result,
                         codec |-> <<>>, calls |-> e.calls]
    /\ UNCHANGED <<secrets, encrypt, maxAge, expires, now, reads>>

Decode ==
    /\ last.op # "decode"
    /\ \E raw \in RawValues, secretList \in SecretLists, decrypt \in BOOLEAN :
          LET d == decodeCookieValue(raw, secretList, decrypt)
          IN last' = [op |-> "decode", arg |-> raw, secrets |-> secretList,
                      encrypt |-> decrypt, result |-> d.result,
                      codec |-> <<>>, calls |-> d.calls]
    /\ UNCHANGED <<secrets, encrypt, maxAge, expires, now, issued, reads>>

CodecNext == Encode \/ Decode

CodecSpec == CodecInit /\ [][CodecNext]_vars

----------------------------------------------------------------------------
(* Properties *)

\* the latest call decoded, with the encode's mode, exactly what the latest encode returned
DecodedIssued ==
    /\ last.op = "decode"
    /\ issued.some
    /\ isObject(issued.value)
    /\ issued.result.ok
    /\ last.arg = issued.result.val
    /\ last.encrypt = issued.encrypt

\* the attempt decodeCookieValue makes with one secret
attempt(raw, key, decrypt) == IF decrypt THEN jwtDecrypt(raw, key) ELSE jwtVerify(raw, key)

\* no secret of the latest decode verifies / decrypts its argument
NoSecretFits ==
    \A i \in DOMAIN last.secrets : ~attempt(last.arg, last.secrets[i], last.encrypt).ok

\* C1 (as claimed): with a non-empty secret list, in either mode, encoding a
\* claims object succeeds, and decoding the returned token with the same list
\* and mode returns exactly the value that was encoded.
C1_SecuredRoundTrip ==
    /\ (issued.some /\ isObject(issued.value) /\ Len(issued.secrets) > 0)
          => issued.result.ok
    /\ (DecodedIssued /\ Len(issued.secrets) > 0 /\ last.secrets = issued.secrets)
          => last.result = Ok(issued.value)

\* C2 (as claimed): with an empty secret list, decoding the token that encode
\* returned for a claims object returns exactly the value that was encoded.
C2_UnsecuredRoundTrip ==
    (DecodedIssued /\ issued.secrets = <<>> /\ last.secrets = <<>>)
       => last.result = Ok(issued.value)

\* C3 (as claimed): a token that encode returned under a list headed by some
\* secret decodes, in the same mode, under every list that contains that
\* secret at any position, to the value it was produced from.
C3_Rotation ==
    (/\ DecodedIssued
     /\ Len(issued.secrets) > 0
     /\ \E i \in DOMAIN last.secrets : last.secrets[i] = issued.secrets[1])
       => last.result = Ok(issued.value)

\* C4: whenever the descriptor's secret list is non-empty, every keyed
\* library call of an encode is made with secrets[0], and a token that the
\* encode returns is keyed by secrets[0]: it verifies (sign mode) or decrypts
\* (encrypt mode) under secrets[0].
C4_SignWithFirst ==
    (issued.some /\ Len(issued.secrets) > 0) =>
       /\ \A i \in DOMAIN issued.calls : issued.calls[i].key = issued.secrets[1]
       /\ issued.result.ok =>
             /\ issued.result.val.key = issued.secrets[1]
             /\ attempt(issued.result.val, issued.secrets[1], issued.encrypt).ok

\* a token came out of an encode under two different secrets
C4_Witness ==
    /\ issued.some
    /\ issued.result.ok
    /\ Len(issued.secrets) = 2
    /\ issued.secrets[1] # issued.secrets[2]

C6_EmptyBypassesCodec ==
    /\ (last.op = "serialize" /\ last.arg = EmptyString) =>
          /\ last.result.ok
          /\ last.result.val.name = name
          /\ last.result.val.value = EmptyString
          /\ last.codec = <<>>
          /\ last.calls = <<>>
    /\ (/\ last.op = "parse"
        /\ last.arg \notin {Null, EmptyString}
        /\ name \in DOMAIN cookieParse(last.arg)
        /\ cookieParse(last.arg)[name] = EmptyString) =>
          /\ last.result = Ok(EmptyString)
          /\ last.codec = <<>>
          /\ last.calls = <<>>

\* serialize("") ran on a descriptor that encrypts with two secrets
C6_Witness ==
    /\ last.op = "serialize"
    /\ last.arg = EmptyString
    /\ Len(secrets) = 2
    /\ encrypt

\* C7: parse returns null, and invokes neither the codec nor the library,
\* when the header is null (or empty) and when the header's mapping does not
\* contain the descriptor's name.
C7_AbsentCookie ==
    (/\ last.op = "parse"
     /\ \/ last.arg \in {Null, EmptyString}
        \/ name \notin DOMAIN cookieParse(last.arg)) =>
       /\ last.result = Ok(Null)
       /\ last.codec = <<>>
       /\ last.calls = <<>>

\* a header carrying only another cookie was parsed by a descriptor with secrets
C7_Witness ==
    /\ last.op = "parse"
    /\ last.arg \notin {Null, EmptyString}
    /\ name \notin DOMAIN cookieParse(last.arg)
    /\ Len(secrets) > 0

C9_FirstMatchWins ==
    (last.op = "decode" /\ Len(last.secrets) > 0) =>
       LET n == Len(last.calls)
           keyed == IF last.encrypt THEN "jwtDecrypt" ELSE "jwtVerify"
           fits(i) == attempt(last.arg, last.secrets[i], last.encrypt).ok
       IN /\ n >= 1
          /\ n <= Len(last.secrets) + 1
          /\ \A i \in 1..n :
                \/ /\ i <= Len(last.secrets)
                   /\ last.calls[i] = Call(keyed, last.secrets[i], fits(i))
                \/ /\ i = Len(last.secrets) + 1
                   /\ last.calls[i].fn = "UnsecuredJWT.decode"
          /\ \A i \in 1..(n - 1) : ~last.calls[i].ok
          /\ (n <= Len(last.secrets)) =>
                /\ last.calls[n].ok
                /\ last.result = Ok(last.arg.payload)

\* the second of two secrets matched after the first failed
C9_Witness ==
    /\ last.op = "decode"
    /\ Len(last.secrets) = 2
    /\ Len(last.calls) = 2
    /\ ~last.calls[1].ok
    /\ last.calls[2].ok
    /\ last.calls[2].key = last.secrets[2]

\* C10 (as claimed): encode("", S, mode) returns "" and decode("", S, mode)
\* returns "", neither making a library call.
C10_CodecShortCircuit ==
    /\ (last.op = "encode" /\ last.arg = EmptyString) =>
          (last.result = Ok(EmptyString) /\ last.calls = <<>>)
    /\ (last.op = "decode" /\ last.arg = EmptyString) =>
          (last.result = Ok(EmptyString) /\ last.calls = <<>>)

\* C10 (amended): the codec has no short circuit for the empty string:
\* encode("", S, mode) makes its one library call, which throws because ""
\* is no claims object, and decode("", S, mode) attempts every secret, then
\* the unsecured decoder, and throws the decoding error.
C10_CodecRejectsEmpty ==
    /\ (last.op = "encode" /\ last.arg = EmptyString) =>
          /\ last.result = Throw("TypeError")
          /\ Len(last.calls) = 1
    /\ (last.op = "decode" /\ last.arg = EmptyString) =>
          /\ last.result = Throw("JWTInvalid")
          /\ Len(last.calls) = Len(last.secrets) + 1
          /\ \A i \in DOMAIN last.calls : ~last.calls[i].ok

\* decode("") ran with two secrets, in encrypt mode
C10_Witness ==
    /\ last.op = "decode"
    /\ last.arg = EmptyString
    /\ Len(last.secrets) = 2
    /\ last.encrypt

====
